---- MODULE Spec2Model ----
(***************************************************************************)
(* Arduino WiFi TFT LCD Canvas Server: the transfer protocol of            *)
(* src/src/main.rs (serve_client, save_image, load_image, compress,        *)
(* uncompress) and the bitmap codec and colour table of src/src/image.rs.  *)
(*                                                                         *)
(* The specifications share the variables:                                 *)
(*   Spec       the server: an accept loop and one worker thread per       *)
(*              connection, all sharing the slot files;                    *)
(*   SpecLive   the server with clients that may stall, with fairness of   *)
(*              the worker threads (progress);                             *)
(*   SpecTall   one connection loading images of many rows;                *)
(*   SpecCodec  the row codec as a pure function: compress then            *)
(*              uncompress applied to every row of a bounded set;          *)
(*   SpecUncompress  uncompress applied to arbitrary segment words;        *)
(*   SpecImage  save_bmp_image then load_bmp_image on every grid of a      *)
(*              bounded set;                                               *)
(*   SpecColor  code_2_color on every u8 and color_2_code on every u16.    *)
(*                                                                         *)
(* Modelling assumptions (all about the environment, none about the code): *)
(*   - the client is the environment: every read_exact either returns      *)
(*     bytes chosen by the client or fails (short read, EOF, timeout);     *)
(*   - the images directory is readable and writable, so the expect()s of  *)
(*     File::create / write_all never fire;                                *)
(*   - a panic unwinds the worker's thread only (the default profile; the  *)
(*     package manifest is not part of src/);                              *)
(*   - save_bmp_image and load_bmp_image are each one step on the file     *)
(*     system (spec.md section 5 leaves concurrent access to one slot      *)
(*     undefined).                                                         *)
(***************************************************************************)
EXTENDS Integers, Sequences, FiniteSets, TLC

(***************************************************************************)
(* Bounds of the model.                                                    *)
(***************************************************************************)
NumConns == 2
MaxSlot == 1
MaxHeight == 2
MaxWidth == 2
MaxMode == 2
MaxCodecWidth == 3
MaxCap == 3
MaxImageHeight == 2
MaxImageWidth == 3
MaxSegments == 3
MaxUncompressWidth == 4
MaxTallHeight == 21

(***************************************************************************)
(* Program constants.                                                      *)
(***************************************************************************)
HeaderLen == 6
BmpHeaderLen == 54
DibHeaderLen == 40
AckPeriod == 10
U8Max == 255
U16Max == 65535

None == 0 - 1

Conns == 1..NumConns
Slots == 0..MaxSlot

(***************************************************************************)
(* State.                                                                  *)
(*   file[s]    slot s's file image_<s>.bmp: exists and its bytes          *)
(*   pc[k]      position of connection k's worker thread                  *)
(*   buffer[k]  serve_client's 6-byte header buffer                        *)
(*   img[k]     save_image's / load_image's img                            *)
(*   row[k]     the row loop index of save_image / load_image              *)
(*   mode[k]    save_image's mode[0]                                       *)
(*   rx[k]      history: the byte strings the worker's read_exact calls    *)
(*              returned after the header, in order                        *)
(*   out[k]     history: the byte strings the worker's write_all calls     *)
(*              sent, in order                                             *)
(*   lastSave[s] history: the connection whose save_bmp_image wrote        *)
(*              file[s] last, 0 when no save has written it                *)
(*   src[k]     history: lastSave of the slot when load_image read it      *)
(*   stalled[k] the client of connection k has stopped sending and reading *)
(*              for good                                                   *)
(*   overflow_checks   whether the build panics on integer overflow        *)
(*   cpc, cCodes, cCap, cEnc, cDec   the row codec exercise of SpecCodec   *)
(*   bpc, bData, bFile, bPixels      the bitmap exercise of SpecImage      *)
(*   tpc, tIn, tOut                  the colour table exercise of SpecColor*)
(*   upc, uSegments, uWidth, uDec    the exercise of SpecUncompress        *)
(***************************************************************************)
VARIABLES file, pc, buffer, img, row, mode, rx, out, lastSave, src, stalled,
          overflow_checks, cpc, cCodes, cCap, cEnc, cDec,
          bpc, bData, bFile, bPixels,
          tpc, tIn, tOut,
          upc, uSegments, uWidth, uDec

serverVars == << file, pc, buffer, img, row, mode, rx, out, lastSave, src, stalled >>
codecVars == << overflow_checks, cpc, cCodes, cCap, cEnc, cDec >>
imageVars == << bpc, bData, bFile, bPixels >>
colorVars == << tpc, tIn, tOut >>
uncompressVars == << upc, uSegments, uWidth, uDec >>
\* everything the server's actions leave alone
pureVars == << codecVars, imageVars, colorVars, uncompressVars >>
vars == << file, pc, buffer, img, row, mode, rx, out, lastSave, src, stalled,
           overflow_checks, cpc, cCodes, cCap, cEnc, cDec,
           bpc, bData, bFile, bPixels, tpc, tIn, tOut,
           upc, uSegments, uWidth, uDec >>

(***************************************************************************)
(* Sequence helpers.                                                       *)
(***************************************************************************)
RECURSIVE ConcatAll(_)
ConcatAll(ss) == IF ss = <<>> THEN <<>> ELSE Head(ss) \o ConcatAll(Tail(ss))

Reverse(s) == [i \in 1..Len(s) |-> s[Len(s) + 1 - i]]

Repeat(v, n) == [i \in 1..n |-> v]

(***************************************************************************)
(* Little-endian integers (byteorder LE, to_le_bytes, from_le_bytes).      *)
(***************************************************************************)
u16_to_le_bytes(v) == << v % 256, (v \div 256) % 256 >>

u16_from_be_bytes(lo, hi) == 256 * lo + hi

u16_from_le_bytes(lo, hi) == lo + 256 * hi

write_u32_LE(v) ==
    << v % 256, (v \div 256) % 256, (v \div 65536) % 256, (v \div 16777216) % 256 >>

u32_from_le_bytes(b0, b1, b2, b3) == b0 + 256 * b1 + 65536 * b2 + 16777216 * b3

(***************************************************************************)
(* Colour table, image.rs.  None stands for Option::None.                  *)
(***************************************************************************)
color_2_code_subst(color) ==
    CASE color = 63488 -> 0
      [] color = 2016  -> 1
      [] color = 31    -> 2
      [] color = 2047  -> 3
      [] color = 63519 -> 4
      [] color = 65504 -> 5
      [] color = 65535 -> 6
      [] color = 21002 -> 7
      [] color = 0     -> 8
      [] OTHER         -> 0

color_2_code(color) ==
    CASE color = 63488 -> 0
      [] color = 2016  -> 1
      [] color = 31    -> 2
      [] color = 2047  -> 3
      [] color = 63519 -> 4
      [] color = 65504 -> 5
      [] color = 65535 -> 6
      [] color = 21002 -> 7
      [] color = 0     -> 8
      [] OTHER         -> None

code_2_color_subst(code) ==
    CASE code = 0 -> 63488
      [] code = 1 -> 2016
      [] code = 2 -> 31
      [] code = 3 -> 2047
      [] code = 4 -> 63519
      [] code = 5 -> 65504
      [] code = 6 -> 65535
      [] code = 7 -> 21002
      [] code = 8 -> 0
      [] OTHER    -> 63488

\* a table that looks only at the lower nibble of the byte
code_2_color_nibble(code) ==
    CASE code % 16 = 0 -> 63488
      [] code % 16 = 1 -> 2016
      [] code % 16 = 2 -> 31
      [] code % 16 = 3 -> 2047
      [] code % 16 = 4 -> 63519
      [] code % 16 = 5 -> 65504
      [] code % 16 = 6 -> 65535
      [] code % 16 = 7 -> 21002
      [] code % 16 = 8 -> 0
      [] OTHER         -> None

code_2_color(code) ==
    CASE code = 0 -> 63488
      [] code = 1 -> 2016
      [] code = 2 -> 31
      [] code = 3 -> 2047
      [] code = 4 -> 63519
      [] code = 5 -> 65504
      [] code = 6 -> 65535
      [] code = 7 -> 21002
      [] code = 8 -> 0
      [] OTHER    -> None

(***************************************************************************)
(* Row codec, main.rs.                                                     *)
(***************************************************************************)
\* segment & 0xF and (segment >> 4) & 0x1FF
SegCode(segment) == segment % 16
SegCount(segment) == (segment \div 16) % 512

\* the loop without the check of codes.len(): skip(idx).take(count) writes
\* what fits and idx runs on
RECURSIVE uncompress_from_no_bound(_, _, _, _)
uncompress_from_no_bound(segments, codes, i, idx) ==
    IF i > Len(segments)
    THEN [codes |-> codes, idx |-> idx]
    ELSE uncompress_from_no_bound(
             segments,
             [j \in 1..Len(codes) |->
                 IF j > idx /\ j <= idx + SegCount(segments[i])
                 THEN SegCode(segments[i]) ELSE codes[j]],
             i + 1, idx + SegCount(segments[i]))

\* uncompress(segments, codes): the loop from segment number i with write
\* index idx; a segment whose run would pass the end of codes breaks the
\* loop.  Returns the buffer and the returned idx.
RECURSIVE uncompress_from(_, _, _, _)
uncompress_from(segments, codes, i, idx) ==
    IF i > Len(segments)
    THEN [codes |-> codes, idx |-> idx]
    ELSE LET code == SegCode(segments[i])
             count == SegCount(segments[i])
         IN  IF Len(codes) < idx + count
             THEN [codes |-> codes, idx |-> idx]
             ELSE uncompress_from(
                      segments,
                      [j \in 1..Len(codes) |->
                          IF j > idx /\ j <= idx + count THEN code ELSE codes[j]],
                      i + 1, idx + count)

uncompress(segments, codes) == uncompress_from(segments, codes, 1, 0)

\* codes.iter().skip(l + 1).position(|&hi| hi != lo).unwrap_or(codes.len()):
\* position counts from the first element AFTER the skip, so the value is
\* relative to index l + 1 (0-based), not an index into codes.
skip_position(codes, l, lo) ==
    LET cand == {j \in (l + 2)..Len(codes) : codes[j] # lo}
    IN  IF cand = {}
        THEN Len(codes)
        ELSE (CHOOSE j \in cand : \A j2 \in cand : j <= j2) - 1 - (l + 1)

\* compress(segments, codes): the while loop with code_it at 0-based
\* position pos.  usize arithmetic that goes below zero panics when the
\* build has overflow checks (debug profile) and wraps otherwise (release
\* profile); a wrapped usize is kept as its two's-complement signed value,
\* so num_pixels < 0 stands for num_pixels + 2^64.
RECURSIVE compress_from(_, _, _, _, _)
compress_from(segments, codes, pos, num_segments, num_pixels) ==
    IF pos >= Len(codes)
    THEN [panic |-> FALSE, segments |-> segments,
          num_segments |-> num_segments, num_pixels |-> num_pixels]
    ELSE LET l == pos
             lo == codes[l + 1]
             r == skip_position(codes, l, lo)
             code == lo % 16
             count == (r - l) % 512
             written == [segments EXCEPT ![num_segments + 1] = count * 16 + code]
         IN  IF r < l /\ overflow_checks
             THEN [panic |-> TRUE, segments |-> segments,
                   num_segments |-> num_segments, num_pixels |-> num_pixels]
             ELSE IF num_segments >= Len(segments)
             THEN [panic |-> FALSE, segments |-> segments,
                   num_segments |-> num_segments, num_pixels |-> num_pixels]
             ELSE IF r = 0
             THEN \* code_it.nth(r - 1) with r = 0: panic, or nth(usize::MAX)
                  \* which exhausts the iterator
                  [panic |-> overflow_checks, segments |-> written,
                   num_segments |-> num_segments + 1,
                   num_pixels |-> num_pixels + (r - l)]
             ELSE compress_from(written, codes, l + 1 + r,
                                num_segments + 1, num_pixels + (r - l))

compress(segments, codes) == compress_from(segments, codes, 0, 0, 0)

(***************************************************************************)
(* Bitmap codec, image.rs.  A file is [exists, bytes].                     *)
(***************************************************************************)
NoFile == [exists |-> FALSE, bytes |-> << >>]

padding_size_none(width) == 0

padding_size(width) == (4 - ((width * 2) % 4)) % 4

\* One stored row: the pixels as little-endian 16-bit values, then padding.
bmp_row_bytes(rowvals) ==
    ConcatAll([j \in 1..Len(rowvals) |-> u16_to_le_bytes(rowvals[j])])
        \o Repeat(0, padding_size(Len(rowvals)))

\* The bytes save_bmp_image writes for data (data has at least one row).
bmp_file_bytes(data, rows_in_file_order) ==
    LET height == Len(data)
        width == Len(data[1])
        image_size == (width * 2 + padding_size(width)) * height
        bmp_header == << 66, 77 >> \o write_u32_LE(BmpHeaderLen + image_size)
                         \o u16_to_le_bytes(0) \o u16_to_le_bytes(0)
                         \o write_u32_LE(BmpHeaderLen)
        dib_header == write_u32_LE(DibHeaderLen) \o write_u32_LE(width)
                         \o write_u32_LE(height)
                         \o u16_to_le_bytes(1) \o u16_to_le_bytes(16)
                         \o write_u32_LE(0) \o write_u32_LE(image_size)
                         \o write_u32_LE(0) \o write_u32_LE(0)
                         \o write_u32_LE(0) \o write_u32_LE(0)
    IN  bmp_header \o dib_header
            \o ConcatAll([i \in 1..height |-> bmp_row_bytes(rows_in_file_order[i])])

save_bmp_image_top_down(data) ==
    IF Len(data) = 0
    THEN [panic |-> TRUE, file |-> NoFile]
    ELSE [panic |-> FALSE,
          file |-> [exists |-> TRUE, bytes |-> bmp_file_bytes(data, data)]]

\* save_bmp_image(data, filename): panics on an image of 0 rows
\* (data.first().unwrap()), before the file is created; otherwise the file
\* is created or truncated and written, rows in reverse order.
save_bmp_image(data) ==
    IF Len(data) = 0
    THEN [panic |-> TRUE, file |-> NoFile]
    ELSE [panic |-> FALSE,
          file |-> [exists |-> TRUE, bytes |-> bmp_file_bytes(data, Reverse(data))]]

blank_image(expected_width, expected_height) ==
    Repeat(Repeat(0, expected_width), expected_height)

\* width and height as load_bmp_image reads them from header bytes 18..25
stored_width(bytes) == u32_from_le_bytes(bytes[19], bytes[20], bytes[21], bytes[22])
stored_height(bytes) == u32_from_le_bytes(bytes[23], bytes[24], bytes[25], bytes[26])

\* The pixel of 0-based file row fr, column c, read sequentially from
\* offset 54.
stored_pixel(bytes, width, fr, c) ==
    LET off == BmpHeaderLen + fr * (width * 2 + padding_size(width)) + 2 * c
    IN  u16_from_le_bytes(bytes[off + 1], bytes[off + 2])

load_bmp_image_no_check(f, expected_width, expected_height) ==
    IF ~f.exists
    THEN [panic |-> FALSE, pixels |-> blank_image(expected_width, expected_height)]
    ELSE IF Len(f.bytes) < BmpHeaderLen
    THEN [panic |-> TRUE, pixels |-> << >>]
    ELSE LET width == stored_width(f.bytes)
             height == stored_height(f.bytes)
         IN  IF Len(f.bytes) < BmpHeaderLen
                                  + height * (width * 2 + padding_size(width))
             THEN [panic |-> TRUE, pixels |-> << >>]
             ELSE [panic |-> FALSE,
                   pixels |-> [r \in 1..height |-> [c \in 1..width |->
                       stored_pixel(f.bytes, width, height - r, c - 1)]]]

load_bmp_image_top_down(f, expected_width, expected_height) ==
    IF ~f.exists
    THEN [panic |-> FALSE, pixels |-> blank_image(expected_width, expected_height)]
    ELSE IF Len(f.bytes) < BmpHeaderLen
    THEN [panic |-> TRUE, pixels |-> << >>]
    ELSE LET width == stored_width(f.bytes)
             height == stored_height(f.bytes)
         IN  IF width # expected_width \/ height # expected_height
             THEN [panic |-> FALSE,
                   pixels |-> blank_image(expected_width, expected_height)]
             ELSE IF Len(f.bytes) < BmpHeaderLen
                                  + height * (width * 2 + padding_size(width))
             THEN [panic |-> TRUE, pixels |-> << >>]
             ELSE [panic |-> FALSE,
                   pixels |-> [r \in 1..height |-> [c \in 1..width |->
                       stored_pixel(f.bytes, width, r - 1, c - 1)]]]

\* load_bmp_image(filename, expected_width, expected_height): a blank image
\* when the file is absent or its dimensions differ; a file too short for
\* its header or its pixel data panics (expect); file rows are read in
\* order into pixels.iter_mut().rev(), so file row fr is logical row
\* height - 1 - fr.
load_bmp_image(f, expected_width, expected_height) ==
    IF ~f.exists
    THEN [panic |-> FALSE, pixels |-> blank_image(expected_width, expected_height)]
    ELSE IF Len(f.bytes) < BmpHeaderLen
    THEN [panic |-> TRUE, pixels |-> << >>]
    ELSE LET width == stored_width(f.bytes)
             height == stored_height(f.bytes)
         IN  IF width # expected_width \/ height # expected_height
             THEN [panic |-> FALSE,
                   pixels |-> blank_image(expected_width, expected_height)]
             ELSE IF Len(f.bytes) < BmpHeaderLen
                                  + height * (width * 2 + padding_size(width))
             THEN [panic |-> TRUE, pixels |-> << >>]
             ELSE [panic |-> FALSE,
                   pixels |-> [r \in 1..height |-> [c \in 1..width |->
                       stored_pixel(f.bytes, width, height - r, c - 1)]]]

(***************************************************************************)
(* What a client can send (bounded samples of the byte values).            *)
(***************************************************************************)
\* operation bytes: 1 = save, 2 = load, 3 = neither
Ops == {1, 2, 3}
\* raw colour-code bytes: a valid code and an invalid one
RawBytes == {8, 9}
\* segment words (count << 4) | code: a run of 1 of code 1 and a run of 1 of
\* the invalid code 9 (two segments overrun a row of width 1)
SegWords == {1 * 16 + 1, 1 * 16 + 9}
\* acknowledgement bytes of the load path
AckBytes == {0, 7}

\* declared dimensions: heights from 0 (the empty image), widths from 1
Heights == 0..MaxHeight
Widths == 1..MaxWidth

Headers ==
    {<< op, s, h, 0, w, 0 >> : op \in Ops, s \in Slots, h \in Heights, w \in Widths}

SeqsOf(S, n) == [1..n -> S]

\* a payload of w bytes whatever the mode byte
Payloads_by_width(m, w) == SeqsOf(RawBytes, w)

\* The payloads a client can send after mode byte m for a row of width w:
\* w raw bytes, or m segment words as 2*m little-endian bytes.
Payloads(m, w) ==
    IF m = 0
    THEN SeqsOf(RawBytes, w)
    ELSE {ConcatAll([i \in 1..m |-> u16_to_le_bytes(ws[i])]) : ws \in SeqsOf(SegWords, m)}

\* A file some other program left in the images directory: a well-formed
\* bitmap of MaxHeight x MaxWidth whose last pixel is not a palette colour.
\* (0x1234)
ForeignGrid ==
    [r \in 1..MaxHeight |-> [c \in 1..MaxWidth |->
        IF r = MaxHeight /\ c = MaxWidth THEN 4660 ELSE code_2_color(1)]]
ForeignFile == [exists |-> TRUE, bytes |-> bmp_file_bytes(ForeignGrid, Reverse(ForeignGrid))]

(***************************************************************************)
(* serve_client's locals, main.rs 123-126.                                 *)
(***************************************************************************)
rw(k) == buffer[k][1]
name(k) == buffer[k][2]
height(k) == u16_from_le_bytes(buffer[k][3], buffer[k][4])
width(k) == u16_from_le_bytes(buffer[k][5], buffer[k][6])

\* How a worker ends: serve_client returned normally, returned after a failed
\* read, returned after a failed write or flush, or the thread panicked.
Terminal == {"done", "read_failed", "write_failed", "panicked"}

Goto(k, p) == pc' = [pc EXCEPT ![k] = p]

ReadFailed_commits_rows(k) ==
    /\ Goto(k, "read_failed")
    /\ file' = IF rw(k) = 1 /\ Len(img[k]) > 0
               THEN [file EXCEPT ![name(k)] = save_bmp_image(img[k]).file]
               ELSE file
    /\ UNCHANGED << buffer, img, row, mode, rx, out, lastSave, src, stalled >>

\* a read without a timeout: a read that gets no bytes never returns
ReadNeverTimesOut(k) ==
    /\ ~stalled[k]
    /\ Goto(k, "read_failed")
    /\ UNCHANGED << file, buffer, img, row, mode, rx, out, lastSave, src, stalled >>

\* `return` after a failed read_exact (short read, EOF, timeout): the worker
\* ends, nothing else changes.
ReadFailed(k) ==
    /\ Goto(k, "read_failed")
    /\ UNCHANGED << file, buffer, img, row, mode, rx, out, lastSave, src, stalled >>

\* `return` after a failed write_all or flush.
WriteFailed(k) ==
    /\ Goto(k, "write_failed")
    /\ UNCHANGED << file, buffer, img, row, mode, rx, out, lastSave, src, stalled >>

\* a panic that takes the whole process down
Panic_aborts_process(k) ==
    /\ pc' = [j \in Conns |-> IF pc[j] \in Terminal THEN pc[j] ELSE "panicked"]
    /\ UNCHANGED << file, buffer, img, row, mode, rx, out, lastSave, src, stalled >>

\* A failed unwrap: the thread panics, nothing else changes.
Panic(k) ==
    /\ Goto(k, "panicked")
    /\ UNCHANGED << file, buffer, img, row, mode, rx, out, lastSave, src, stalled >>

(***************************************************************************)
(* main: the accept loop spawns one worker thread per connection.          *)
(***************************************************************************)
Accept(k) ==
    /\ pc[k] = "idle"
    /\ \A j \in Conns : j < k => pc[j] # "idle"
    /\ Goto(k, "hdr")
    /\ UNCHANGED << file, buffer, img, row, mode, rx, out, lastSave, src, stalled >>
    /\ UNCHANGED pureVars

(***************************************************************************)
(* serve_client: read the 6-byte header and dispatch on rw.                *)
(***************************************************************************)
\* a dispatch that takes every operation other than 1 for a load
Dispatch_else_load(b) ==
    LET h == u16_from_le_bytes(b[3], b[4])
    IN  CASE b[1] = 1 -> IF h = 0 THEN "s_bmp" ELSE "s_mode"
          [] OTHER    -> "l_bmp"

Dispatch(b) ==
    LET h == u16_from_le_bytes(b[3], b[4])
    IN  CASE b[1] = 1 -> IF h = 0 THEN "s_bmp" ELSE "s_mode"
          [] b[1] = 2 -> "l_bmp"
          [] OTHER    -> "done"

\* serve_client up to the call of save_image or load_image, for a client
\* that sends one of the given headers.  A stalled client sends nothing, so
\* its read_exact can only fail (the read timeout).
ServeClientOn(k, headers) ==
    /\ pc[k] = "hdr"
    /\ \/ \* set_read_timeout, peer_addr or read_exact failed
          ReadFailed(k)
       \/ \E b \in headers :
            /\ ~stalled[k]
            /\ buffer' = [buffer EXCEPT ![k] = b]
            /\ Goto(k, Dispatch(b))
            /\ UNCHANGED << file, img, row, mode, rx, out, lastSave, src, stalled >>
    /\ UNCHANGED pureVars

ServeClient(k) == ServeClientOn(k, Headers)

(***************************************************************************)
(* save_image.                                                             *)
(***************************************************************************)
\* read_exact(&mut mode), line 177
SaveReadMode(k) ==
    /\ pc[k] = "s_mode"
    /\ \/ ReadFailed(k)
       \/ \E m \in 0..MaxMode :
            /\ ~stalled[k]
            /\ mode' = [mode EXCEPT ![k] = m]
            /\ rx' = [rx EXCEPT ![k] = Append(@, << m >>)]
            /\ Goto(k, "s_payload")
            /\ UNCHANGED << file, buffer, img, row, out, lastSave, src, stalled >>
    /\ UNCHANGED pureVars

\* segments from segments_bytes, lines 196-199
segments_of(segments_bytes) ==
    [i \in 1..(Len(segments_bytes) \div 2) |->
        u16_from_le_bytes(segments_bytes[2 * i - 1], segments_bytes[2 * i])]

\* The codes of one row: the raw payload, or the segments uncompressed into
\* vec![0; width], lines 175-202.
row_codes(m, payload, w) ==
    IF m = 0
    THEN payload
    ELSE uncompress(segments_of(payload), Repeat(0, w)).codes

\* The row payload, its decoding and img.push, lines 182-203; the loop ends
\* after the last row and save_bmp_image is next.
SaveReadRow(k) ==
    /\ pc[k] = "s_payload"
    /\ \/ ReadFailed(k)
       \/ \E payload \in Payloads(mode[k], width(k)) :
            LET codes == row_codes(mode[k], payload, width(k))
                colors == [j \in 1..Len(codes) |-> code_2_color(codes[j])]
            IN  /\ ~stalled[k]
                /\ rx' = [rx EXCEPT ![k] = Append(@, payload)]
                /\ IF \E j \in 1..Len(colors) : colors[j] = None
                   THEN /\ Goto(k, "panicked")
                        /\ UNCHANGED << img, row >>
                   ELSE /\ img' = [img EXCEPT ![k] = Append(@, colors)]
                        /\ row' = [row EXCEPT ![k] = @ + 1]
                        /\ Goto(k, IF row[k] + 1 < height(k) THEN "s_mode" ELSE "s_bmp")
                /\ UNCHANGED << file, buffer, mode, out, lastSave, src, stalled >>
    /\ UNCHANGED pureVars

\* save_bmp_image(&img, ..), line 215
SaveBmp(k) ==
    /\ pc[k] = "s_bmp"
    /\ LET res == save_bmp_image(img[k])
       IN  IF res.panic
           THEN Panic(k)
           ELSE /\ file' = [file EXCEPT ![name(k)] = res.file]
                /\ lastSave' = [lastSave EXCEPT ![name(k)] = k]
                /\ Goto(k, "done")
                /\ UNCHANGED << buffer, img, row, mode, rx, out, src, stalled >>
    /\ UNCHANGED pureVars

(***************************************************************************)
(* load_image.                                                             *)
(***************************************************************************)
\* load_bmp_image(..), lines 235-239
LoadBmp(k) ==
    /\ pc[k] = "l_bmp"
    /\ LET res == load_bmp_image(file[name(k)], width(k), height(k))
       IN  IF res.panic
           THEN Panic(k)
           ELSE /\ img' = [img EXCEPT ![k] = res.pixels]
                /\ src' = [src EXCEPT ![k] = lastSave[name(k)]]
                /\ Goto(k, IF Len(res.pixels) = 0 THEN "l_fin" ELSE "l_row")
                /\ UNCHANGED << file, buffer, row, mode, rx, out, lastSave, stalled >>
    /\ UNCHANGED pureVars

ack_after_never(i) == FALSE

ack_after_every_row(i) == TRUE

\* Whether the server waits for a byte of the client after row i, line 262
ack_after(i) == (i % AckPeriod) = 0

\* The position after row i is complete: the next row or the final read.
after_row(k, i) == IF i + 1 < Len(img[k]) THEN "l_row" ELSE "l_fin"

\* One row: translate, write_all, flush, lines 250-260
LoadSendRow(k) ==
    /\ pc[k] = "l_row"
    /\ LET codes == [j \in 1..Len(img[k][row[k] + 1]) |->
                        color_2_code(img[k][row[k] + 1][j])]
       IN  IF \E j \in 1..Len(codes) : codes[j] = None
           THEN Panic(k)
           ELSE \/ WriteFailed(k)
                \/ /\ out' = [out EXCEPT ![k] = Append(@, codes)]
                   /\ IF ack_after(row[k])
                      THEN /\ Goto(k, "l_ack")
                           /\ UNCHANGED row
                      ELSE /\ Goto(k, after_row(k, row[k]))
                           /\ row' = [row EXCEPT ![k] = @ + 1]
                   /\ UNCHANGED << file, buffer, img, mode, rx, lastSave, src, stalled >>
    /\ UNCHANGED pureVars

\* read_exact(&mut [0u8]) after row i, lines 262-267
LoadReadAck(k) ==
    /\ pc[k] = "l_ack"
    /\ \/ ReadFailed(k)
       \/ \E b \in AckBytes :
            /\ ~stalled[k]
            /\ rx' = [rx EXCEPT ![k] = Append(@, << b >>)]
            /\ row' = [row EXCEPT ![k] = @ + 1]
            /\ Goto(k, after_row(k, row[k]))
            /\ UNCHANGED << file, buffer, img, mode, out, lastSave, src, stalled >>
    /\ UNCHANGED pureVars

\* the final read_exact(&mut [0u8]), lines 274-277
LoadReadFinal(k) ==
    /\ pc[k] = "l_fin"
    /\ \/ ReadFailed(k)
       \/ \E b \in AckBytes :
            /\ ~stalled[k]
            /\ rx' = [rx EXCEPT ![k] = Append(@, << b >>)]
            /\ Goto(k, "done")
            /\ UNCHANGED << file, buffer, img, row, mode, out, lastSave, src, stalled >>
    /\ UNCHANGED pureVars

(***************************************************************************)
(* The server.                                                             *)
(***************************************************************************)
\* Under Spec the codec exercise is off.  No arithmetic of the server paths
\* can overflow within the header's 16-bit dimensions, so the build's
\* overflow checks play no part there.
CodecOff ==
    /\ overflow_checks = FALSE
    /\ cpc = "off"
    /\ cCodes = << >>
    /\ cCap = 0
    /\ cEnc = [panic |-> FALSE, segments |-> << >>, num_segments |-> 0, num_pixels |-> 0]
    /\ cDec = [codes |-> << >>, idx |-> 0]

\* Likewise the exercises of the bitmap codec, of the colour table and of
\* uncompress are off outside their own specifications.
ImageOff ==
    /\ bpc = "off"
    /\ bData = << >>
    /\ bFile = NoFile
    /\ bPixels = << >>

ColorOff ==
    /\ tpc = "off"
    /\ tIn = 0
    /\ tOut = 0

UncompressOff ==
    /\ upc = "off"
    /\ uSegments = << >>
    /\ uWidth = 0
    /\ uDec = [codes |-> << >>, idx |-> 0]

ServerStart ==
    /\ pc = [k \in Conns |-> "idle"]
    /\ buffer = [k \in Conns |-> Repeat(0, HeaderLen)]
    /\ img = [k \in Conns |-> << >>]
    /\ row = [k \in Conns |-> 0]
    /\ mode = [k \in Conns |-> 0]
    /\ rx = [k \in Conns |-> << >>]
    /\ out = [k \in Conns |-> << >>]
    /\ lastSave = [s \in Slots |-> 0]
    /\ src = [k \in Conns |-> 0]
    /\ stalled = [k \in Conns |-> FALSE]

\* The images directory holds one foreign file, in slot 0; every other slot
\* has no file yet.
Init ==
    /\ file = [s \in Slots |-> IF s = 0 THEN ForeignFile ELSE NoFile]
    /\ ServerStart
    /\ CodecOff
    /\ ImageOff
    /\ ColorOff
    /\ UncompressOff

Next ==
    \E k \in Conns :
        \/ Accept(k)
        \/ ServeClient(k)
        \/ SaveReadMode(k)
        \/ SaveReadRow(k)
        \/ SaveBmp(k)
        \/ LoadBmp(k)
        \/ LoadSendRow(k)
        \/ LoadReadAck(k)
        \/ LoadReadFinal(k)

Spec == Init /\ [][Next]_vars

(***************************************************************************)
(* The row codec on its own: compress a row of codes into a zeroed segment *)
(* buffer of capacity cCap, then uncompress the emitted segments into a    *)
(* zeroed buffer of the row's width.                                       *)
(***************************************************************************)
Codes == 0..8

CodecRows == UNION {SeqsOf(Codes, w) : w \in 0..MaxCodecWidth}

ServerOff ==
    /\ file = [s \in Slots |-> NoFile]
    /\ ServerStart

CodecInit ==
    /\ ServerOff
    /\ overflow_checks \in BOOLEAN
    /\ cpc = "in"
    /\ cCodes \in CodecRows
    /\ cCap \in 0..MaxCap
    /\ cEnc = [panic |-> FALSE, segments |-> << >>, num_segments |-> 0, num_pixels |-> 0]
    /\ cDec = [codes |-> << >>, idx |-> 0]
    /\ ImageOff
    /\ ColorOff
    /\ UncompressOff

CodecCompress ==
    /\ cpc = "in"
    /\ cEnc' = compress(Repeat(0, cCap), cCodes)
    /\ cpc' = IF cEnc'.panic THEN "panicked" ELSE "enc"
    /\ UNCHANGED << overflow_checks, cCodes, cCap, cDec >>
    /\ UNCHANGED << serverVars, imageVars, colorVars, uncompressVars >>

\* The emitted segments: the first num_segments entries of the buffer.
emitted(enc) == SubSeq(enc.segments, 1, enc.num_segments)

CodecUncompress ==
    /\ cpc = "enc"
    /\ cDec' = uncompress(emitted(cEnc), Repeat(0, Len(cCodes)))
    /\ cpc' = "dec"
    /\ UNCHANGED << overflow_checks, cCodes, cCap, cEnc >>
    /\ UNCHANGED << serverVars, imageVars, colorVars, uncompressVars >>

CodecNext == CodecCompress \/ CodecUncompress

SpecCodec == CodecInit /\ [][CodecNext]_vars

(***************************************************************************)
(* Properties of the server.                                               *)
(***************************************************************************)
IsSave(k) == pc[k] \notin {"idle", "hdr"} /\ rw(k) = 1
IsLoad(k) == pc[k] \notin {"idle", "hdr"} /\ rw(k) = 2

\* The number of complete row messages (mode byte and payload) a save
\* worker has read, and the codes the i-th of them decodes to.
RowsRead(k) == Len(rx[k]) \div 2
MsgMode(k, i) == rx[k][2 * i - 1][1]
MsgPayload(k, i) == rx[k][2 * i]
MsgCodes(k, i) == row_codes(MsgMode(k, i), MsgPayload(k, i), width(k))

ValidCodes(codes) == \A j \in 1..Len(codes) : codes[j] \in 0..8

\* The colour value of each valid code, from the table of spec.md 4.1.
Palette == << 63488, 2016, 31, 2047, 63519, 65504, 65535, 21002, 0 >>
TableColors(codes) == [j \in 1..Len(codes) |-> Palette[codes[j] + 1]]

\* The codes of a row of palette colours.
TableCodes(colors) ==
    [j \in 1..Len(colors) |->
        CHOOSE c \in 0..8 : Palette[c + 1] = colors[j]]
InPalette(colors) == \A j \in 1..Len(colors) : \E c \in 0..8 : Palette[c + 1] = colors[j]

\* The bytes of a file as a standard bottom-up 16-bit bitmap: the pixel of
\* logical row r, column c (both 0-based) of an h-by-w image.
RowStride(w) == 2 * w + ((4 - ((2 * w) % 4)) % 4)
FilePixel(f, h, w, r, c) ==
    LET off == 54 + (h - 1 - r) * RowStride(w) + 2 * c
    IN  f.bytes[off + 1] + 256 * f.bytes[off + 2]

\* File f holds exactly the grid (of at least one row).
FileHolds(f, grid) ==
    LET h == Len(grid)
        w == Len(grid[1])
    IN  /\ f.exists
        /\ Len(f.bytes) = 54 + h * RowStride(w)
        /\ stored_width(f.bytes) = w
        /\ stored_height(f.bytes) = h
        /\ \A r \in 0..(h - 1) : \A c \in 0..(w - 1) :
               FilePixel(f, h, w, r, c) = grid[r + 1][c + 1]

\* C1: save-then-load round trip.  A load that read the file a save of the
\* same slot, height and width wrote (no other save in between) sends rows
\* whose codes are, in order, the codes that save decoded from its row
\* messages; run to completion it sends all h rows.
C1_SaveLoadRoundTrip ==
    \A b \in Conns : \A a \in Conns :
        (/\ IsLoad(b)
         /\ pc[b] \notin {"l_bmp"}
         /\ src[b] = a
         /\ height(a) = height(b)
         /\ width(a) = width(b))
        => /\ \A i \in 1..Len(out[b]) : out[b][i] = MsgCodes(a, i)
           /\ pc[b] = "done" => Len(out[b]) = height(a)

C1_Witness ==
    \E b \in Conns : \E a \in Conns :
        /\ IsLoad(b) /\ pc[b] = "done" /\ src[b] = a
        /\ height(a) = height(b) /\ width(a) = width(b)
        /\ Len(out[b]) = 2
        /\ out[b][1] # out[b][2]
        /\ \E j \in 2..Len(out[b][1]) : out[b][1][j] # out[b][1][1]

\* One step of the system seen from connection k: a failed read in
\* save_image changes no file, and k changes its slot's file only from
\* s_bmp, with all declared rows read, to a file of that many rows.
C2_Step(k) ==
    /\ (pc[k] \in {"s_mode", "s_payload"} /\ pc'[k] = "read_failed")
           => (file' = file /\ lastSave' = lastSave)
    /\ (pc[k] # pc'[k] /\ file'[name(k)] # file[name(k)])
           => /\ pc[k] = "s_bmp"
              /\ RowsRead(k) = height(k)
              /\ Len(img[k]) = height(k)
              /\ stored_height(file'[name(k)].bytes) = height(k)
              /\ Len(file'[name(k)].bytes) = 54 + height(k) * RowStride(width(k))

\* C2: no partial save.  A save worker that ends on a failed read of a mode
\* byte or of a row payload leaves every file as it was, and a file changes
\* only in the step of a save worker that has read and decoded all the rows
\* its header declares; the file it writes holds that many rows.
C2_NoPartialSave ==
    [][/\ \A k \in Conns : C2_Step(k)
       /\ file' # file => \E k \in Conns : pc[k] = "s_bmp" /\ pc'[k] = "done"]_vars

C2_Witness ==
    \E k \in Conns :
        /\ IsSave(k) /\ pc[k] = "read_failed"
        /\ height(k) = 2 /\ Len(img[k]) = 1
        /\ ~file[name(k)].exists

\* A save worker has read all the row messages its header declares and every
\* one of them decoded to valid codes; the grid they translate to.
AllRowsDecoded(k) ==
    /\ Len(rx[k]) = 2 * height(k)
    /\ \A i \in 1..height(k) : ValidCodes(MsgCodes(k, i))
ExpectedGrid(k) == [i \in 1..height(k) |-> TableColors(MsgCodes(k, i))]

\* Rows are consumed in order: the rows of img are the translations of the
\* first row messages, one row per message, in arrival order.
RowsInOrder(k) ==
    /\ Len(img[k]) <= RowsRead(k)
    /\ \A i \in 1..Len(img[k]) : img[k][i] = TableColors(MsgCodes(k, i))
    /\ pc[k] \in {"s_mode", "s_payload"} => row[k] = Len(img[k]) /\ RowsRead(k) = row[k]

\* C3 as written: for ANY declared height and width, once all the declared
\* rows have arrived and decoded, the save ends with the slot's file
\* overwritten by exactly the translated grid.
C3_AnyHeight ==
    \A k \in Conns :
        (IsSave(k) /\ AllRowsDecoded(k) /\ pc[k] # "s_bmp")
        => /\ pc[k] = "done"
           /\ lastSave[name(k)] # 0
           /\ lastSave[name(k)] = k => FileHolds(file[name(k)], ExpectedGrid(k))

\* C3 (amended): for every save request with declared height h >= 1 and any
\* width, once all h row messages have arrived and decoded the save ends
\* with the file of the header's slot overwritten by exactly the h-by-w grid
\* whose row i is the colour-table translation of the i-th row message; rows
\* are consumed strictly in order.  With h = 0 save_bmp_image panics and no
\* file is written.
C3_SaveResult ==
    \A k \in Conns :
        IsSave(k) =>
            /\ RowsInOrder(k)
            /\ (AllRowsDecoded(k) /\ pc[k] # "s_bmp" /\ height(k) >= 1)
               => /\ pc[k] = "done"
                  /\ lastSave[name(k)] # 0
                  /\ lastSave[name(k)] = k
                         => FileHolds(file[name(k)], ExpectedGrid(k))
            /\ (height(k) = 0 /\ pc[k] # "s_bmp")
               => /\ pc[k] = "panicked"
                  /\ \A s \in Slots : lastSave[s] # k

\* A save of two rows of width 2: a raw row [8,8], then one segment
\* (code 1, length 1), stored as rows [0,0] and [0x07E0, 0xF800].
C3_Witness ==
    \E k \in Conns :
        /\ IsSave(k) /\ pc[k] = "done" /\ lastSave[name(k)] = k
        /\ rx[k] = << << 0 >>, << 8, 8 >>, << 1 >>, << 17, 0 >> >>
        /\ ExpectedGrid(k) = << << 0, 0 >>, << 2016, 63488 >> >>

\* The file is absent, or the width (bytes 18..21) or height (bytes 22..25)
\* in its header differs from w or h.
StoredDimsDiffer(f, w, h) ==
    \/ ~f.exists
    \/ f.bytes[19] + 256 * f.bytes[20] + 65536 * f.bytes[21] # w
    \/ f.bytes[23] + 256 * f.bytes[24] + 65536 * f.bytes[25] # h

C4_Step(k) ==
    /\ (/\ pc[k] = "l_bmp" /\ pc'[k] # "l_bmp"
        /\ StoredDimsDiffer(file[name(k)], width(k), height(k)))
       => /\ pc'[k] \in {"l_row", "l_fin"}
          /\ Len(img'[k]) = height(k)
          /\ \A r \in 1..height(k) : img'[k][r] = [c \in 1..width(k) |-> 0]
    /\ (pc[k] = "l_row" /\ out'[k] # out[k])
       => /\ out'[k] = Append(out[k], TableCodes(img[k][row[k] + 1]))
          /\ img'[k] = img[k]

\* C4: blank-grid fallback.  When load_image reads a slot whose file is
\* absent or whose stored width or height differs from the header's, the
\* read does not fail and yields a grid of the declared height and width
\* with every colour value 0; the rows the load then sends are the codes of
\* that grid's rows.
C4_BlankGridFallback == [][\A k \in Conns : C4_Step(k)]_vars

\* A load of 1 row from slot 0, which still holds the foreign
\* MaxHeight-row file, has sent the one blank row.
C4_Witness ==
    \E k \in Conns :
        /\ IsLoad(k) /\ pc[k] = "done" /\ name(k) = 0 /\ lastSave[0] = 0
        /\ height(k) = 1 /\ MaxHeight > 1
        /\ img[k] = << [c \in 1..width(k) |-> 0] >>
        /\ out[k] = << [c \in 1..width(k) |-> 8] >>

\* The maximal runs of a row, left to right, as << code, length >> pairs.
RECURSIVE RefRuns(_)
RefRuns(codes) ==
    IF codes = << >>
    THEN << >>
    ELSE LET rest == RefRuns(Tail(codes))
         IN  IF rest # << >> /\ rest[1][1] = Head(codes)
             THEN << << Head(codes), rest[1][2] + 1 >> >> \o Tail(rest)
             ELSE << << Head(codes), 1 >> >> \o rest

\* The row message of spec.md 4.2: mode N and N segment words when the row
\* has N <= 105 runs, else mode 0 and the raw codes.
Frame(codes) ==
    LET runs == RefRuns(codes)
        n == Len(runs)
    IN  IF n >= 1 /\ n <= 105
        THEN << n >> \o ConcatAll([i \in 1..n |->
                 << (runs[i][2] * 16 + runs[i][1]) % 256,
                    (runs[i][2] * 16 + runs[i][1]) \div 256 >>])
        ELSE << 0 >> \o codes

\* C5: load row framing.  Every row the load path writes is one mode byte
\* followed by the payload: the segment words when the row compresses to at
\* most 105 segments, else mode 0 and the raw codes.
C5_LoadRowFraming ==
    \A k \in Conns :
        IsLoad(k) =>
            \A i \in 1..Len(out[k]) :
                InPalette(img[k][i]) => out[k][i] = Frame(TableCodes(img[k][i]))

CleanImg(k) == \A i \in 1..Len(img[k]) : InPalette(img[k][i])

\* C6 as written: a load whose client sent no byte after the header and
\* whose read or normal return ended it has emitted all h rows.
C6_NoAckNeeded ==
    \A k \in Conns :
        (/\ IsLoad(k) /\ pc[k] \in {"done", "read_failed"}
         /\ rx[k] = << >> /\ CleanImg(k))
        => Len(out[k]) = height(k)

\* The number of rows among rows 0..i-1 whose index is a multiple of 10.
AcksDue(i) == Cardinality({j \in 0..(i - 1) : j % 10 = 0})

\* C6 (amended): the server emits row 0 without any byte of the client
\* after the header, but emits row i > 0 only after it has read one client
\* byte for every earlier row whose index is a multiple of 10; a client that
\* only reads receives the first row and nothing more.
C6_LoadNeedsAck ==
    \A k \in Conns :
        IsLoad(k) =>
            /\ Len(out[k]) >= 1 => Len(rx[k]) >= AcksDue(Len(out[k]) - 1)
            /\ rx[k] = << >> => Len(out[k]) <= 1
            /\ (pc[k] = "read_failed" /\ rx[k] = << >> /\ height(k) >= 1)
                   => Len(out[k]) = 1

C6_Witness ==
    \E k \in Conns :
        /\ IsLoad(k) /\ pc[k] = "read_failed" /\ rx[k] = << >>
        /\ height(k) = 2 /\ Len(out[k]) = 1 /\ CleanImg(k)

\* C7: invalid code on save.  If a row message decodes to a code outside
\* 0..8, the worker panics at that row: the row is the last one read, img
\* holds only the rows before it (no colour is substituted), and the worker
\* never writes a file.
C7_InvalidCodeOnSave ==
    \A k \in Conns :
        IsSave(k) =>
            \A i \in 1..RowsRead(k) :
                ~ValidCodes(MsgCodes(k, i))
                => /\ pc[k] = "panicked"
                   /\ i = RowsRead(k)
                   /\ Len(img[k]) = i - 1
                   /\ \A s \in Slots : lastSave[s] # k

C7_Witness ==
    \E k \in Conns :
        /\ IsSave(k) /\ pc[k] = "panicked" /\ height(k) = 2
        /\ RowsRead(k) = 2 /\ Len(img[k]) = 1 /\ mode[k] = 2
        /\ ~ValidCodes(MsgCodes(k, 2))
        /\ ~file[name(k)].exists

\* The first row (1-based) of the loaded grid with a non-palette value.
FirstBadRow(k) ==
    CHOOSE i \in 1..Len(img[k]) :
        /\ ~InPalette(img[k][i])
        /\ \A j \in 1..(i - 1) : InPalette(img[k][j])

C8_Inv(k) ==
    (IsLoad(k) /\ pc[k] # "l_bmp" /\ ~CleanImg(k))
    => LET i == FirstBadRow(k)
       IN  /\ Len(out[k]) <= i - 1
           /\ row[k] <= i - 1
           /\ pc[k] # "done"
           /\ pc[k] = "panicked" => (Len(out[k]) = i - 1 /\ row[k] = i - 1)
           /\ \A j \in 1..Len(out[k]) : out[k][j] = TableCodes(img[k][j])

C8_Step(k) ==
    (/\ IsLoad(k) /\ pc[k] = "l_row" /\ ~CleanImg(k)
     /\ row[k] = FirstBadRow(k) - 1 /\ pc'[k] # pc[k])
    => pc'[k] = "panicked" /\ out' = out

\* C8: unknown colour on load.  If the loaded grid has its first non-palette
\* value in row i, the load never writes row i or a later row and never
\* completes; when it reaches row i it panics without writing, with rows
\* 0..i-1 sent as their exact codes.
C8_UnknownColorOnLoad ==
    /\ [](\A k \in Conns : C8_Inv(k))
    /\ [][\A k \in Conns : C8_Step(k)]_vars

C8_Witness ==
    \E k \in Conns :
        /\ IsLoad(k) /\ pc[k] = "panicked"
        /\ Len(out[k]) >= 1 /\ Len(out[k]) = FirstBadRow(k) - 1

(***************************************************************************)
(* Properties of the row codec (checked under SpecCodec).                  *)
(***************************************************************************)
\* C9: row codec round trip.  For every row of codes in 0..8, compress into
\* a segment buffer with room for every run, then uncompress of the emitted
\* segments into a zeroed buffer of the row's width, yields the row.
C9_RowCodecRoundTrip ==
    (cpc = "dec" /\ cCap >= Len(cCodes)) => cDec.codes = cCodes

RECURSIVE SumCounts(_)
SumCounts(segments) ==
    IF segments = << >>
    THEN 0
    ELSE ((Head(segments) \div 16) % 512) + SumCounts(Tail(segments))

\* C10: compression correctness.  For every row of codes in 0..8 and a
\* buffer with room for every run, the segments compress emits are the
\* maximal runs of the row left to right, no two adjacent segments carry the
\* same code, and with at most 105 segments the run lengths and the returned
\* pixel count sum to the row's width.
C10_CompressMaximalRuns ==
    (cpc \in {"enc", "dec"} /\ cCap >= Len(cCodes))
    => LET segs == emitted(cEnc)
       IN  /\ [i \in 1..Len(segs) |-> << segs[i] % 16, (segs[i] \div 16) % 512 >>]
                  = RefRuns(cCodes)
           /\ \A i \in 1..(Len(segs) - 1) : segs[i] % 16 # segs[i + 1] % 16
           /\ Len(segs) <= 105
                  => (SumCounts(segs) = Len(cCodes) /\ cEnc.num_pixels = Len(cCodes))

(***************************************************************************)
(* The bitmap codec on its own: save_bmp_image of a grid of palette        *)
(* colours, then load_bmp_image of the file with the grid's width and      *)
(* height.                                                                 *)
(***************************************************************************)
\* three palette colours whose two bytes differ: 0xF800, 0x07E0, 0x520A
ImageColors == {code_2_color(0), code_2_color(1), code_2_color(7)}

\* every grid of at most MaxImageHeight rows of one width up to
\* MaxImageWidth; the grid of 0 rows is the empty slice
ImageGrids ==
    UNION {[1..h -> SeqsOf(ImageColors, w)] :
               h \in 0..MaxImageHeight, w \in 0..MaxImageWidth}

ImageInit ==
    /\ file = [s \in Slots |-> NoFile]
    /\ ServerStart
    /\ CodecOff
    /\ ColorOff
    /\ UncompressOff
    /\ bpc = "in"
    /\ bData \in ImageGrids
    /\ bFile = NoFile
    /\ bPixels = << >>

ImageSave ==
    /\ bpc = "in"
    /\ LET res == save_bmp_image(bData)
       IN  /\ bFile' = res.file
           /\ bpc' = IF res.panic THEN "panicked" ELSE "saved"
    /\ UNCHANGED << bData, bPixels >>
    /\ UNCHANGED << serverVars, codecVars, colorVars, uncompressVars >>

ImageLoad ==
    /\ bpc = "saved"
    /\ LET res == load_bmp_image(bFile, Len(bData[1]), Len(bData))
       IN  /\ bPixels' = res.pixels
           /\ bpc' = IF res.panic THEN "panicked" ELSE "loaded"
    /\ UNCHANGED << bData, bFile >>
    /\ UNCHANGED << serverVars, codecVars, colorVars, uncompressVars >>

ImageNext == ImageSave \/ ImageLoad

SpecImage == ImageInit /\ [][ImageNext]_vars

(***************************************************************************)
(* Properties of the bitmap codec (checked under SpecImage).               *)
(***************************************************************************)
\* C11 as written: for ANY grid of palette colours, the 0-row grid
\* included, save_bmp_image then load_bmp_image returns the grid.
C11_AnyGrid ==
    bpc \notin {"in", "saved"} => (bpc = "loaded" /\ bPixels = bData)

\* C11 (amended): bitmap round trip.  For every grid of h >= 1 rows of width
\* w of palette colours, save_bmp_image then load_bmp_image(f, w, h) does
\* not panic and returns a grid equal to the original in every row and
\* pixel, in top-down order, for padded and unpadded widths.  On the grid of
\* 0 rows save_bmp_image panics and writes no file.
C11_BitmapRoundTrip ==
    /\ Len(bData) >= 1 =>
          /\ bpc # "panicked"
          /\ bpc = "loaded" =>
                /\ Len(bPixels) = Len(bData)
                /\ \A r \in 1..Len(bData) :
                      /\ Len(bPixels[r]) = Len(bData[r])
                      /\ \A c \in 1..Len(bData[r]) : bPixels[r][c] = bData[r][c]
    /\ (Len(bData) = 0 /\ bpc # "in") => (bpc = "panicked" /\ ~bFile.exists)

\* A grid of two different rows of odd width (padded rows), with two
\* different pixels in a row, has come back.
C11_Witness ==
    /\ bpc = "loaded"
    /\ Len(bData) = 2
    /\ Len(bData[1]) = 3
    /\ bData[1] # bData[2]
    /\ bData[1][1] # bData[1][2]
    /\ bPixels = bData

\* The little-endian number held in n bytes of f from 0-based offset off.
LeField(f, off, n) ==
    LET RECURSIVE val(_)
        val(i) == IF i = n THEN 0 ELSE f.bytes[off + i + 1] + 256 * val(i + 1)
    IN  val(0)

\* The layout of the claim for the h-by-w grid in file f: total length,
\* size field, pixel-data offset, and each logical row r at offset
\* 54 + (h-1-r)*(2w+p) as w little-endian values and p zero bytes.
LayoutOf(f, grid, h, w) ==
    LET p == (4 - ((2 * w) % 4)) % 4
        stride == 2 * w + p
    IN  /\ f.exists
        /\ Len(f.bytes) = 54 + h * stride
        /\ stride % 4 = 0
        /\ LeField(f, 2, 4) = 54 + h * stride
        /\ LeField(f, 10, 4) = 54
        /\ \A r \in 0..(h - 1) :
              LET at == 54 + (h - 1 - r) * stride
              IN  /\ \A c \in 0..(w - 1) :
                        /\ f.bytes[at + 2 * c + 1] = grid[r + 1][c + 1] % 256
                        /\ f.bytes[at + 2 * c + 2] = grid[r + 1][c + 1] \div 256
                  /\ \A q \in 0..(p - 1) : f.bytes[at + 2 * w + q + 1] = 0

\* C16 as written: for ANY grid, the 0-row grid included, save_bmp_image
\* writes the file of 54 + h*(2w+p) bytes.
C16_AnyGrid ==
    bpc # "in" =>
        LayoutOf(bFile, bData, Len(bData), IF Len(bData) = 0 THEN 0 ELSE Len(bData[1]))

\* C16 (amended): bitmap file layout.  For a grid of h >= 1 rows of width w,
\* save_bmp_image writes a file of exactly 54 + h*(2w+p) bytes with
\* p = (4 - 2w mod 4) mod 4, every stored row a multiple of 4 bytes; the
\* size field holds that total, the pixel-data offset is 54, and logical
\* row r is at offset 54 + (h-1-r)*(2w+p) as w little-endian 16-bit values
\* and p zero bytes, so the last row follows the header and row 0 is last.
\* On the grid of 0 rows save_bmp_image panics and writes no file.
C16_BitmapFileLayout ==
    /\ (Len(bData) >= 1 /\ bpc # "in") =>
          /\ bpc # "panicked"
          /\ LayoutOf(bFile, bData, Len(bData), Len(bData[1]))
    /\ (Len(bData) = 0 /\ bpc # "in") => (bpc = "panicked" /\ ~bFile.exists)

\* A saved grid of two different rows of odd width: the file is 54 + 2*8
\* bytes, row 1 right after the header, row 0 last.
C16_Witness ==
    /\ bpc = "saved"
    /\ Len(bData) = 2
    /\ Len(bData[1]) = 3
    /\ bData[1] # bData[2]
    /\ Len(bFile.bytes) = 70
    /\ bFile.bytes[55] = bData[2][1] % 256
    /\ bFile.bytes[63] = bData[1][1] % 256

(***************************************************************************)
(* The colour table on its own: code_2_color of every u8 and color_2_code  *)
(* of every u16, then the other function on each result that is Some.      *)
(***************************************************************************)
ColorInit ==
    /\ file = [s \in Slots |-> NoFile]
    /\ ServerStart
    /\ CodecOff
    /\ ImageOff
    /\ UncompressOff
    /\ \/ tpc = "code" /\ tIn \in 0..U8Max
       \/ tpc = "color" /\ tIn \in 0..U16Max
    /\ tOut = 0

\* code_2_color(code)
ColorOfCode ==
    /\ tpc = "code"
    /\ tOut' = code_2_color(tIn)
    /\ tpc' = "code_color"
    /\ UNCHANGED tIn
    /\ UNCHANGED << serverVars, codecVars, imageVars, uncompressVars >>

\* color_2_code(color)
CodeOfColor ==
    /\ tpc = "color"
    /\ tOut' = color_2_code(tIn)
    /\ tpc' = "color_code"
    /\ UNCHANGED tIn
    /\ UNCHANGED << serverVars, codecVars, imageVars, uncompressVars >>

\* color_2_code(code_2_color(code)), when code_2_color gave Some
CodeOfColorOfCode ==
    /\ tpc = "code_color"
    /\ tOut # None
    /\ tOut' = color_2_code(tOut)
    /\ tpc' = "code_color_code"
    /\ UNCHANGED tIn
    /\ UNCHANGED << serverVars, codecVars, imageVars, uncompressVars >>

\* code_2_color(color_2_code(color)), when color_2_code gave Some
ColorOfCodeOfColor ==
    /\ tpc = "color_code"
    /\ tOut # None
    /\ tOut' = code_2_color(tOut)
    /\ tpc' = "color_code_color"
    /\ UNCHANGED tIn
    /\ UNCHANGED << serverVars, codecVars, imageVars, uncompressVars >>

ColorNext ==
    \/ ColorOfCode
    \/ CodeOfColor
    \/ CodeOfColorOfCode
    \/ ColorOfCodeOfColor

SpecColor == ColorInit /\ [][ColorNext]_vars

(***************************************************************************)
(* Properties of the colour table (checked under SpecColor).               *)
(***************************************************************************)
\* The 9 palette values of the claim, in the order of their codes 0..8:
\* 0xF800, 0x07E0, 0x001F, 0x07FF, 0xF81F, 0xFFE0, 0xFFFF, 0x520A, 0x0000.
PaletteValues == {63488, 2016, 31, 2047, 63519, 65504, 65535, 21002, 0}

\* C12: colour table bijection.  code_2_color is defined exactly for the
\* codes 0..8 and fails for every other byte; color_2_code is defined
\* exactly for the 9 palette values and fails for every other 16-bit value;
\* each function undoes the other on the 9 codes and on the 9 values.
C12_ColorTableBijection ==
    /\ tpc = "code_color" =>
          /\ (tOut # None) <=> (tIn \in 0..8)
          /\ tIn \in 0..8 => tOut = Palette[tIn + 1]
    /\ tpc = "color_code" =>
          /\ (tOut # None) <=> (tIn \in PaletteValues)
          /\ tIn \in PaletteValues => (tOut \in 0..8 /\ Palette[tOut + 1] = tIn)
    /\ tpc = "code_color_code" => (tIn \in 0..8 /\ tOut = tIn)
    /\ tpc = "color_code_color" => (tIn \in PaletteValues /\ tOut = tIn)

\* 0x520A has gone to its code and come back.
C12_Witness ==
    /\ tpc = "color_code_color"
    /\ tIn = 21002
    /\ tOut = 21002

(***************************************************************************)
(* uncompress on its own: any segment words into a zeroed destination of   *)
(* any width, as save_image calls it.                                      *)
(***************************************************************************)
\* segment words (count << 4) | code: an empty run, runs of 1 and 2, the
\* longest run (511), a run of 1 of a code above 8, and a run of 1 with a
\* bit above the count field set (0x2000)
UncompressWords ==
    {0 * 16 + 5, 1 * 16 + 1, 2 * 16 + 2, 511 * 16 + 4, 1 * 16 + 9, 8192 + 1 * 16 + 3}

UncompressInit ==
    /\ file = [s \in Slots |-> NoFile]
    /\ ServerStart
    /\ CodecOff
    /\ ImageOff
    /\ ColorOff
    /\ upc = "in"
    /\ uSegments \in UNION {SeqsOf(UncompressWords, n) : n \in 0..MaxSegments}
    /\ uWidth \in 0..MaxUncompressWidth
    /\ uDec = [codes |-> << >>, idx |-> 0]

\* let mut codes = vec![0; width]; uncompress(&segments, &mut codes)
UncompressRow ==
    /\ upc = "in"
    /\ uDec' = uncompress(uSegments, Repeat(0, uWidth))
    /\ upc' = "out"
    /\ UNCHANGED << uSegments, uWidth >>
    /\ UNCHANGED << serverVars, codecVars, imageVars, colorVars >>

UncompressNext == UncompressRow

SpecUncompress == UncompressInit /\ [][UncompressNext]_vars

(***************************************************************************)
(* Properties of uncompress (checked under SpecUncompress).                *)
(***************************************************************************)
\* The cumulative run length of the first n segments (length = the 9 bits
\* above the low 4).
RunSum(segments, n) == SumCounts(SubSeq(segments, 1, n))

\* The number of segments expanded: all those before the first one whose
\* run makes the cumulative length exceed width.
Expanded(segments, w) ==
    LET over == {n \in 1..Len(segments) : RunSum(segments, n) > w}
    IN  IF over = {}
        THEN Len(segments)
        ELSE (CHOOSE n \in over : \A n2 \in over : n <= n2) - 1

\* The expansion of the first n segments into a buffer of w zeros.
ExpandedRow(segments, n, w) ==
    [j \in 1..w |->
        IF j > RunSum(segments, n)
        THEN 0
        ELSE LET i == CHOOSE i \in 1..n :
                          RunSum(segments, i - 1) < j /\ j <= RunSum(segments, i)
             IN  segments[i] % 16]

\* C13: uncompress defensive bound.  For any segment words and a zeroed
\* destination of any width, uncompress keeps the destination's length
\* (no index >= width is written), expands the segments in order and stops
\* at the first one whose run would pass the width, writing nothing for it
\* or for any later one: every entry from the stopping point on is still 0
\* and the returned count is the number of entries written, at most width.
C13_UncompressBound ==
    upc = "out" =>
        LET n == Expanded(uSegments, uWidth)
        IN  /\ Len(uDec.codes) = uWidth
            /\ uDec.idx = RunSum(uSegments, n)
            /\ uDec.idx <= uWidth
            /\ uDec.codes = ExpandedRow(uSegments, n, uWidth)
            /\ \A j \in (uDec.idx + 1)..uWidth : uDec.codes[j] = 0

\* A run of 2 fits a width of 3, the next run of 2 would pass it, and the
\* run of 1 after that is not written although it would fit.
C13_Witness ==
    /\ upc = "out"
    /\ uWidth = 3
    /\ uSegments = << 2 * 16 + 2, 2 * 16 + 2, 1 * 16 + 1 >>
    /\ uDec.codes = << 2, 2, 0 >>
    /\ uDec.idx = 2

(***************************************************************************)
(* Further properties of the server (checked under Spec).                  *)
(***************************************************************************)
Failed(k) == pc[k] \in {"read_failed", "write_failed", "panicked"}
InFlight(k) == pc[k] \notin ({"idle"} \cup Terminal)

\* The worker's own state.
Locals(k) == << pc[k], buffer[k], img[k], row[k], mode[k], rx[k], out[k], src[k] >>
LocalsNext(k) ==
    << pc'[k], buffer'[k], img'[k], row'[k], mode'[k], rx'[k], out'[k], src'[k] >>

\* Any step of worker k.
WorkerStep(k) ==
    \/ ServeClient(k)
    \/ SaveReadMode(k)
    \/ SaveReadRow(k)
    \/ SaveBmp(k)
    \/ LoadBmp(k)
    \/ LoadSendRow(k)
    \/ LoadReadAck(k)
    \/ LoadReadFinal(k)

\* The file of slot s as far as the workers that completed a save decide
\* it: the file the server started with, or the file of the grid the last
\* saving worker decoded from its own row messages.
FileByCompleted(s) ==
    IF lastSave[s] = 0
    THEN (IF s = 0 THEN ForeignFile ELSE NoFile)
    ELSE [exists |-> TRUE,
          bytes |-> bmp_file_bytes(ExpectedGrid(lastSave[s]),
                                   Reverse(ExpectedGrid(lastSave[s])))]

\* The grid a load read, as far as its own header and the completed save it
\* read from decide it.
GridByCompleted(k) ==
    IF src[k] = 0
    THEN load_bmp_image(IF name(k) = 0 THEN ForeignFile ELSE NoFile,
                        width(k), height(k)).pixels
    ELSE load_bmp_image([exists |-> TRUE,
                         bytes |-> bmp_file_bytes(ExpectedGrid(src[k]),
                                                  Reverse(ExpectedGrid(src[k])))],
                        width(k), height(k)).pixels

C14_Inv ==
    /\ \A k \in Conns :
          /\ Failed(k) => \A s \in Slots : lastSave[s] # k
          /\ (pc[k] = "idle" /\ \A j \in Conns : j < k => pc[j] # "idle")
                 => ENABLED Accept(k)
          /\ InFlight(k) => ENABLED WorkerStep(k)
          /\ (IsLoad(k) /\ pc[k] \notin {"l_bmp", "panicked"})
                 => /\ src[k] # 0 => (pc[src[k]] = "done" /\ IsSave(src[k]))
                    /\ img[k] = GridByCompleted(k)
                    /\ \A i \in 1..Len(out[k]) : out[k][i] = TableCodes(img[k][i])
    /\ \A s \in Slots :
          /\ lastSave[s] # 0 => (pc[lastSave[s]] = "done" /\ name(lastSave[s]) = s)
          /\ file[s] = FileByCompleted(s)

C14_Step ==
    \A k \in Conns :
        /\ (pc'[k] # pc[k] /\ pc'[k] \in {"read_failed", "write_failed", "panicked"})
               => /\ file' = file
                  /\ lastSave' = lastSave
                  /\ \A j \in Conns : j # k => LocalsNext(j) = Locals(j)
        /\ Failed(k) => LocalsNext(k) = Locals(k)

\* C14: error isolation between connections.  A worker's failure (failed
\* read, failed write, panic on an invalid code or unknown colour) ends only
\* that worker: the failing step changes no file and no other worker's
\* state, a failed worker has written no file and does nothing more, the
\* accept loop can still accept and every in-flight worker can still take
\* its next step; so each file is the one decided by the workers that
\* completed a save, and what a load reads and sends is decided by its own
\* header and the completed save it read from, whatever failed meanwhile.
C14_ErrorIsolation ==
    /\ [](C14_Inv)
    /\ [][C14_Step]_vars

\* Worker 1 died on an invalid code after one good row of a save to a slot
\* with no file; worker 2 loaded that slot and got the whole blank image.
C14_Witness ==
    /\ IsSave(1) /\ pc[1] = "panicked" /\ Len(img[1]) = 1
    /\ IsLoad(2) /\ pc[2] = "done" /\ name(2) = name(1)
    /\ height(2) = 2 /\ Len(out[2]) = 2
    /\ ~file[name(1)].exists

(***************************************************************************)
(* The server with clients that may stall, and its progress.               *)
(*                                                                         *)
(* serve_client sets a read timeout (set_read_timeout(SOCKET_TIMEOUT),     *)
(* main.rs 23, 107) and no write timeout.  A read_exact therefore always   *)
(* returns: with the bytes, or failed once the client has sent nothing for *)
(* the timeout.  A write_all to a client that has stopped reading returns  *)
(* while the connection's buffers have room and otherwise does not return. *)
(* Fairness: every worker thread that can take a step eventually takes     *)
(* one (the scheduler runs it; a pending read returns).                    *)
(***************************************************************************)
\* The client of connection k stops sending and reading, for good, while
\* the worker is at a read or a write of the connection.
ClientStalls(k) ==
    /\ pc[k] \in {"hdr", "s_mode", "s_payload", "l_row", "l_ack", "l_fin"}
    /\ ~stalled[k]
    /\ stalled' = [stalled EXCEPT ![k] = TRUE]
    /\ UNCHANGED << file, pc, buffer, img, row, mode, rx, out, lastSave, src >>
    /\ UNCHANGED pureVars

\* write_all of a row (main.rs 253) to a stalled client when the row does
\* not fit the room left in the connection's buffers: the call does not
\* return.  The room is the environment's (a row is up to 65535 bytes, and
\* up to 10 rows go out between two confirmations), so whether a write to a
\* stalled client returns is a choice between this action and LoadSendRow.
LoadWriteBlocks(k) ==
    /\ pc[k] = "l_row"
    /\ stalled[k]
    /\ \A j \in 1..Len(img[k][row[k] + 1]) : color_2_code(img[k][row[k] + 1][j]) # None
    /\ Goto(k, "l_blocked")
    /\ UNCHANGED << file, buffer, img, row, mode, rx, out, lastSave, src, stalled >>
    /\ UNCHANGED pureVars

\* The headers of the progress specification: every operation and height on
\* one slot at the narrowest width (no read or write depends on them for
\* whether it returns).
LiveHeaders == {b \in Headers : b[2] = MaxSlot /\ u16_from_le_bytes(b[5], b[6]) = 1}

LiveStep(k) ==
    \/ ServeClientOn(k, LiveHeaders)
    \/ SaveReadMode(k)
    \/ SaveReadRow(k)
    \/ SaveBmp(k)
    \/ LoadBmp(k)
    \/ LoadSendRow(k)
    \/ LoadReadAck(k)
    \/ LoadReadFinal(k)
    \/ LoadWriteBlocks(k)

LiveNext ==
    \E k \in Conns :
        \/ Accept(k)
        \/ ClientStalls(k)
        \/ LiveStep(k)

SpecLive ==
    /\ Init
    /\ [][LiveNext]_vars
    /\ \A k \in Conns : WF_vars(LiveStep(k))

(***************************************************************************)
(* Properties of progress (checked under SpecLive).                        *)
(***************************************************************************)
\* The blocking reads of the header, of a mode byte and of a row payload.
AtSaveRead(k) == pc[k] \in {"hdr", "s_mode", "s_payload"}

\* Part of C15 that holds as written: a stalled client's worker at a
\* blocking read is ended by the read timeout, and a save ended by a failed
\* read has left its slot's file as the completed saves made it.
C15_TimeoutEndsRead ==
    /\ \A k \in Conns : (stalled[k] /\ AtSaveRead(k)) ~> (pc[k] = "read_failed")
    /\ [](\A k \in Conns :
             (IsSave(k) /\ pc[k] = "read_failed")
             => /\ \A s \in Slots : lastSave[s] # k
                /\ file[name(k)] = FileByCompleted(name(k)))

\* C15 as written: in addition, EVERY worker eventually terminates.
C15_EveryWorkerTerminates ==
    /\ C15_TimeoutEndsRead
    /\ \A k \in Conns : (pc[k] = "hdr") ~> (pc[k] \in Terminal)

\* C15 (amended): stalled client.  At every blocking read of a connection
\* (header, mode byte, row payload), if the client never supplies the bytes
\* the read timeout ends the worker; every save worker eventually
\* terminates, and a save aborted this way has written nothing; every
\* worker eventually terminates or is a load worker blocked in the write
\* of a row to a client that has stopped reading, which no timeout bounds.
C15_StalledClient ==
    /\ C15_TimeoutEndsRead
    /\ \A k \in Conns : (pc[k] \in {"s_mode", "s_payload", "s_bmp"}) ~> (pc[k] \in Terminal)
    /\ \A k \in Conns : (pc[k] = "hdr") ~> (pc[k] \in Terminal \cup {"l_blocked"})

\* A save of two rows whose client stalled after the first row: the worker
\* was ended by the failed read and the slot has no file.
C15_Witness ==
    \E k \in Conns :
        /\ stalled[k] /\ IsSave(k) /\ pc[k] = "read_failed"
        /\ height(k) = 2 /\ Len(img[k]) = 1
        /\ ~file[name(k)].exists

(***************************************************************************)
(* Framing of the save path and the unknown operation (checked under Spec).*)
(***************************************************************************)
\* The number of bytes a worker's read_exact calls have consumed after the
\* header.
RECURSIVE TotalLen(_)
TotalLen(ss) == IF ss = << >> THEN 0 ELSE Len(Head(ss)) + TotalLen(Tail(ss))

\* The length of the claim for a row message of mode byte m at width w.
RowMessageLen(m, w) == 1 + (IF m = 0 THEN w ELSE 2 * m)

RECURSIVE SumRowMessageLens(_, _)
SumRowMessageLens(k, n) ==
    IF n = 0 THEN 0 ELSE RowMessageLen(MsgMode(k, n), width(k)) + SumRowMessageLens(k, n - 1)

\* C17: save framing stays aligned.  Every row of a save consumes one mode
\* byte and then exactly width bytes (mode 0) or 2*M bytes (mode M >= 1),
\* whatever the segments hold (covering less or more than width): reads
\* alternate mode byte and payload, so the mode of row i+1 is the first
\* byte after row i's payload, and a completed save has consumed exactly
\* the sum of these lengths over its h rows.
C17_SaveFraming ==
    \A k \in Conns :
        IsSave(k) =>
            /\ \A i \in 1..Len(rx[k]) :
                  IF i % 2 = 1
                  THEN Len(rx[k][i]) = 1
                  ELSE Len(rx[k][i]) = (IF rx[k][i - 1][1] = 0
                                        THEN width(k)
                                        ELSE 2 * rx[k][i - 1][1])
            /\ pc[k] = "s_mode" => (Len(rx[k]) = 2 * row[k] /\ row[k] < height(k))
            /\ pc[k] = "s_payload"
                   => (Len(rx[k]) = 2 * row[k] + 1 /\ rx[k][Len(rx[k])] = << mode[k] >>)
            /\ pc[k] = "done"
                   => /\ Len(rx[k]) = 2 * height(k)
                      /\ TotalLen(rx[k]) = SumRowMessageLens(k, height(k))

\* A completed save of two rows of width 1: two segments of length 1 (one
\* more pixel than the row has) took 1 + 4 bytes, and the next byte was read
\* as the mode of the second, raw row.
C17_Witness ==
    \E k \in Conns :
        /\ IsSave(k) /\ pc[k] = "done" /\ width(k) = 1 /\ height(k) = 2
        /\ rx[k] = << << 2 >>, << 17, 0, 17, 0 >>, << 0 >>, << 8 >> >>
        /\ TotalLen(rx[k]) = 7

C19_Step ==
    \A k \in Conns :
        /\ (/\ pc[k] = "hdr" /\ pc'[k] \notin {"hdr", "read_failed"}
            /\ buffer'[k][1] \notin {1, 2})
               => /\ pc'[k] = "done"
                  /\ file' = file
                  /\ lastSave' = lastSave
                  /\ rx'[k] = << >> /\ out'[k] = << >>
                  /\ img'[k] = << >> /\ src'[k] = 0
        /\ pc[k] = "done" => LocalsNext(k) = Locals(k)

\* C19: unknown operation.  When the first header byte is neither 1 nor 2,
\* serve_client returns right after the 6 header bytes: the worker is done
\* having read no further byte, written no byte to the client, and created,
\* read or modified no slot file, and it does nothing afterwards.
C19_UnknownOperation ==
    /\ [](\A k \in Conns :
             (pc[k] \notin {"idle", "hdr", "read_failed"} /\ rw(k) \notin {1, 2})
             => /\ pc[k] = "done"
                /\ rx[k] = << >> /\ out[k] = << >>
                /\ img[k] = << >> /\ src[k] = 0
                /\ \A s \in Slots : lastSave[s] # k)
    /\ [][C19_Step]_vars

\* A header of operation 3 for 2 rows: the worker is done with nothing
\* read, sent or stored.
C19_Witness ==
    \E k \in Conns :
        /\ pc[k] = "done" /\ rw(k) = 3 /\ height(k) = 2
        /\ rx[k] = << >> /\ out[k] = << >>
        /\ \A s \in Slots : lastSave[s] # k

(***************************************************************************)
(* load_image on tall images: one connection loading an image of up to     *)
(* MaxTallHeight rows of width 1 from a slot that has no file of that      *)
(* size.                                                                   *)
(***************************************************************************)
TallConns == {k \in Conns : k = 1}

TallHeaders ==
    {<< 2, s, h % 256, h \div 256, 1, 0 >> : s \in Slots, h \in 0..MaxTallHeight}

TallNext ==
    \E k \in TallConns :
        \/ Accept(k)
        \/ ServeClientOn(k, TallHeaders)
        \/ LoadBmp(k)
        \/ LoadSendRow(k)
        \/ LoadReadAck(k)
        \/ LoadReadFinal(k)

SpecTall == Init /\ [][TallNext]_vars

(***************************************************************************)
(* Properties of the load path's flow control (checked under SpecTall).    *)
(***************************************************************************)
C18_Inv(k) ==
    (IsLoad(k) /\ pc[k] # "l_bmp") =>
        /\ \A i \in 1..Len(rx[k]) : Len(rx[k][i]) = 1
        /\ pc[k] = "l_row" => (row[k] = Len(out[k]) /\ Len(rx[k]) = AcksDue(row[k]))
        /\ pc[k] = "l_ack"
               => /\ Len(out[k]) = row[k] + 1
                  /\ row[k] % 10 = 0
                  /\ Len(rx[k]) = AcksDue(row[k])
        /\ pc[k] = "l_fin" => (Len(out[k]) = height(k) /\ Len(rx[k]) = AcksDue(height(k)))
        /\ pc[k] = "done"
               => /\ Len(out[k]) = height(k)
                  /\ Len(rx[k]) = ((height(k) + 9) \div 10) + 1
        /\ pc[k] = "read_failed"
               => \/ Len(out[k]) = height(k) /\ Len(rx[k]) = AcksDue(height(k))
                  \/ /\ Len(out[k]) >= 1
                     /\ (Len(out[k]) - 1) % 10 = 0
                     /\ Len(rx[k]) = AcksDue(Len(out[k]) - 1)

C18_Step(k) ==
    /\ (pc[k] = "l_row" /\ out'[k] # out[k])
           => /\ Len(out'[k]) = Len(out[k]) + 1
              /\ rx'[k] = rx[k]
              /\ pc'[k] = (IF row[k] % 10 = 0 THEN "l_ack"
                           ELSE IF row[k] + 1 < height(k) THEN "l_row" ELSE "l_fin")
    /\ (pc[k] = "l_ack" /\ pc'[k] # pc[k])
           => /\ out'[k] = out[k]
              /\ \/ pc'[k] = "read_failed" /\ rx'[k] = rx[k]
                 \/ /\ Len(rx'[k]) = Len(rx[k]) + 1
                    /\ pc'[k] = (IF row[k] + 1 < height(k) THEN "l_row" ELSE "l_fin")
    /\ (pc[k] = "l_fin" /\ pc'[k] # pc[k])
           => /\ out'[k] = out[k]
              /\ \/ pc'[k] = "read_failed" /\ rx'[k] = rx[k]
                 \/ Len(rx'[k]) = Len(rx[k]) + 1 /\ pc'[k] = "done"
    /\ pc[k] = "read_failed" => LocalsNext(k) = Locals(k)

\* C18: load flow control as implemented.  After writing row i with
\* i mod 10 = 0 the server reads one byte before it writes row i+1, and
\* after the last row it reads one final byte; where it goes next does not
\* depend on the byte's value; a failed read ends the load with no further
\* row written; a completed load of h rows has consumed exactly
\* ceil(h/10) + 1 bytes after the header.
C18_LoadFlowControl ==
    /\ [](\A k \in Conns : C18_Inv(k))
    /\ [][\A k \in Conns : C18_Step(k)]_vars

\* A completed load of 11 rows: confirmations after rows 0 and 10 and the
\* final one, of different values.
C18_Witness ==
    \E k \in Conns :
        /\ IsLoad(k) /\ pc[k] = "done" /\ height(k) = 11
        /\ Len(out[k]) = 11
        /\ rx[k] = << << 0 >>, << 7 >>, << 0 >> >>

====
